---- MODULE Spec2Model ----
(***************************************************************************)
(* The calendar/contacts adapter (radicale MCP server): its two lazy DAV   *)
(* sessions, the tool handlers that create, read, update and delete        *)
(* events, todos and contacts, the iCalendar/vCard builders and parsers    *)
(* they use, and the DAV server they talk to.                              *)
(*                                                                         *)
(* JavaScript runs one handler step at a time: a handler runs without      *)
(* interruption from one await to the next.  An action of this module is   *)
(* one such step, together with the server's handling of the request the   *)
(* step waited for.                                                        *)
(***************************************************************************)
EXTENDS Integers, Sequences, FiniteSets, TLC

(***************************************************************************)
(* Bounds.                                                                 *)
(***************************************************************************)
\* tool invocations started in one run
MaxCalls == 3
\* objects created in one run (each create draws a fresh uid)
MaxObjects == 1
\* rewrites of a stored object by a writer other than the adapter
MaxForeign == 1
\* tool invocations started in one run of the merge specification
MaxMergeCalls == 2
\* fields that one update request of the merge specification supplies
MaxFields == 2

(***************************************************************************)
(* JavaScript values.  Strings are TLA+ strings; undefined and null are    *)
(* two reserved strings.  A boolean argument is "true" or "false".         *)
(***************************************************************************)
Undefined == "<undefined>"
Null == "<null>"
Falsy(v) == v \in {Undefined, Null, "", "false"}
Truthy(v) == ~Falsy(v)

\* A text line that the object does not have.
NoLine == "<no line>"

(***************************************************************************)
(* Dates.  An ISO 8601 string is a record: its spelling (date only,        *)
(* instant, instant with milliseconds as Date.toISOString prints it), its  *)
(* day of March 2026 and its hour (UTC).  An iCalendar token is a record   *)
(* of its form (DATE or DATE-TIME), day and hour.  The same record shape   *)
(* holds undefined, null and the absent line.                              *)
(***************************************************************************)
Days == {1, 2}
Hours == {0, 9}

DateVal(k, d, h) == [k |-> k, day |-> d, hour |-> h]
UndefinedDate == DateVal("undefined", 0, 0)
NullDate == DateVal("null", 0, 0)
\* "2026-03-0dT0h:00:00Z"
IsoInstant(d, h) == DateVal("iso", d, h)
\* "2026-03-0dT0h:00:00.000Z"
IsoMillis(d, h) == DateVal("iso-ms", d, h)
\* "2026-03-0d"
IsoDateOnly(d) == DateVal("iso-date", d, 0)
\* "2026030dT0h0000Z"
IcalDateTime(d, h) == DateVal("DATE-TIME", d, h)
\* "2026030d"
IcalDate(d) == DateVal("DATE", d, 0)
NoDateLine == DateVal("no line", 0, 0)
\* The empty string, and a string that `new Date` cannot read.
EmptyDate == DateVal("empty", 0, 0)
InvalidDate == DateVal("invalid", 0, 0)

IsIso(v) == v.k \in {"iso", "iso-ms", "iso-date"}
FalsyDate(v) == v.k \in {"undefined", "null", "empty"}
TruthyDate(v) == ~FalsyDate(v)

\* A Date made from an ISO string is printed by toISOString with milliseconds;
\* a date-only string is midnight UTC.
isoToIcal(iso) == IcalDateTime(iso.day, iso.hour)

\* The first eight characters of the string without its dashes.
isoToIcalDate(iso) == IcalDate(iso.day)

\* What the iCalendar parser hands over for a date property: a Date object.
\* A DATE token is the midnight that starts the day (process time zone UTC).
ParsedDate(tok) ==
    IF tok.k = "no line" THEN UndefinedDate
    ELSE DateVal("Date", tok.day, tok.hour)

icalDateToIso(d) ==
    IF d.k \in {"undefined", "null"} THEN NullDate
    ELSE IF IsIso(d) THEN d
    ELSE IsoMillis(d.day, d.hour)

(***************************************************************************)
(* Object texts.  An iCalendar or vCard text is a record of the lines the  *)
(* builders write: the component it holds and one field per property.      *)
(* Instants of the clock are natural numbers; uids are 1, 2, ... in the    *)
(* order crypto.randomUUID hands them out, 0 is the undefined uid.         *)
(***************************************************************************)
NoNumber == -1

\* A text of two lines: the builders write a value as it is, so a line break
\* in a value ends the content line that carries it.
TwoLines == "D1\nD2"
\* A text that begins with a line break.
BlankFirstLine == "\nBo"
\* What a parser that splits the text into lines reads as the line's value.
FirstLine(v) ==
    IF v = TwoLines THEN "D1" ELSE IF v = BlankFirstLine THEN "" ELSE v

StrLine(text, key) == IF key \in DOMAIN text THEN text[key] ELSE NoLine
DateLine(text, key) == IF key \in DOMAIN text THEN text[key] ELSE NoDateLine
NumLine(text, key) == IF key \in DOMAIN text THEN text[key] ELSE NoNumber

\* A builder that pushes the line whatever the value.
StrLineAlways(v) == v
\* `if (x) lines.push(...)`
StrLineIf(v) == IF Truthy(v) THEN v ELSE NoLine

toUpperCase(s) ==
    CASE s = "completed" -> "COMPLETED"
      [] s = "needs-action" -> "NEEDS-ACTION"
      [] OTHER -> s

buildVEvent(r, now) ==
    [comp |-> "VEVENT",
     UID |-> r.uid,
     DTSTAMP |-> now,
     DTSTART |-> IF Truthy(r.allDay) THEN isoToIcalDate(r.dtstart)
                 ELSE isoToIcal(r.dtstart),
     DTEND |-> IF FalsyDate(r.dtend) THEN NoDateLine
               ELSE IF Truthy(r.allDay) THEN isoToIcalDate(r.dtend)
               ELSE isoToIcal(r.dtend),
     SUMMARY |-> StrLineIf(r.summary),
     DESCRIPTION |-> StrLineIf(r.description),
     LOCATION |-> StrLineIf(r.location)]

buildVTodo(r, now) ==
    [comp |-> "VTODO",
     UID |-> r.uid,
     DTSTAMP |-> now,
     SUMMARY |-> StrLineIf(r.summary),
     DESCRIPTION |-> StrLineIf(r.description),
     DUE |-> IF FalsyDate(r.due) THEN NoDateLine ELSE isoToIcal(r.due),
     PRIORITY |-> r.priority,
     STATUS |-> IF Truthy(r.status) THEN toUpperCase(r.status) ELSE NoLine,
     COMPLETED |-> IF r.completed = NoNumber THEN NoNumber ELSE r.completed]

\* [first_name, last_name].filter(Boolean).join(" ")
JoinNames(first, last) ==
    IF Truthy(first) /\ Truthy(last) THEN first \o " " \o last
    ELSE IF Truthy(first) THEN first
    ELSE IF Truthy(last) THEN last
    ELSE ""

OrEmpty(v) == IF Truthy(v) THEN v ELSE ""

buildVCard(r) ==
    [comp |-> "VCARD",
     UID |-> r.uid,
     FN |-> IF Truthy(r.full_name) THEN r.full_name
            ELSE IF Truthy(JoinNames(r.first_name, r.last_name))
                 THEN JoinNames(r.first_name, r.last_name)
            ELSE "Unknown",
     N |-> <<OrEmpty(r.last_name), OrEmpty(r.first_name)>>,
     EMAIL |-> StrLineIf(r.email),
     TEL |-> StrLineIf(r.phone),
     ORG |-> StrLineIf(r.org),
     TITLE |-> StrLineIf(r.title),
     NOTE |-> StrLineIf(r.note)]

\* result.<field> = val for a line that is there; undefined otherwise.
VCardField(text, key) ==
    IF StrLine(text, key) = NoLine THEN Undefined ELSE FirstLine(text[key])

parseVCard(text) ==
    [uid |-> IF "UID" \in DOMAIN text THEN text.UID ELSE 0,
     full_name |-> VCardField(text, "FN"),
     first_name |-> IF "N" \in DOMAIN text THEN OrEmpty(text.N[2]) ELSE Undefined,
     last_name |-> IF "N" \in DOMAIN text THEN OrEmpty(text.N[1]) ELSE Undefined,
     email |-> VCardField(text, "EMAIL"),
     phone |-> VCardField(text, "TEL"),
     org |-> VCardField(text, "ORG"),
     title |-> VCardField(text, "TITLE"),
     note |-> VCardField(text, "NOTE")]

\* `comp.x || ""`
ParsedText(text, key) ==
    IF StrLine(text, key) = NoLine THEN "" ELSE FirstLine(text[key])

\* The parser yields one component per BEGIN/END block; an object written by
\* the builders holds one block.
parseIcalObjects(data, type) ==
    IF data.comp = type /\ type \in {"VEVENT", "VTODO"}
    THEN << [uid |-> data.UID,
             summary |-> ParsedText(data, "SUMMARY"),
             description |-> ParsedText(data, "DESCRIPTION"),
             start |-> icalDateToIso(ParsedDate(DateLine(data, "DTSTART"))),
             end |-> icalDateToIso(ParsedDate(DateLine(data, "DTEND"))),
             location |-> ParsedText(data, "LOCATION"),
             status |-> ParsedText(data, "STATUS"),
             priority |-> NumLine(data, "PRIORITY"),
             completed |-> NumLine(data, "COMPLETED"),
             due |-> icalDateToIso(ParsedDate(DateLine(data, "DUE")))] >>
    ELSE << >>

(***************************************************************************)
(* State.                                                                  *)
(***************************************************************************)
VARIABLES
    store,          \* the server: object URL -> [etag, data], or NoObject
    etagCtr,        \* the last version token the server handed out
    uidCtr,         \* the last uid crypto.randomUUID() handed out
    clock,          \* the last instant new Date() returned
    calls,          \* tool invocations started so far
    foreign,        \* rewrites by other writers so far
    credsOk,        \* whether the server accepts RADICALE_USERNAME/PASSWORD
    caldavClient,   \* the module-level handle: 0 is null, else a session id
    carddavClient,  \* likewise for contacts
    sessions,       \* every DAVClient made so far: [proto, login]
    inv,            \* the tool invocations in progress, one per slot
    collections,    \* the server: the collections, each under a user's path
    codec,          \* the last application of a builder, parser or derivation
    calendarOwner   \* RADICALE_CALENDAR_OWNER, Undefined when it is not set

vars == <<store, etagCtr, uidCtr, clock, calls, foreign, credsOk,
          caldavClient, carddavClient, sessions, inv, collections, codec,
          calendarOwner>>

\* process.env.RADICALE_USERNAME
RADICALE_USERNAME == "user"
\* `RADICALE_CALENDAR_OWNER || RADICALE_USERNAME`: the user whose path the
\* sessions are opened on.
Owner == IF Truthy(calendarOwner) THEN calendarOwner ELSE RADICALE_USERNAME

\* An object URL is <collection URL><uid>.ics or .vcf: one URL per uid.
Urls == 1..MaxObjects
NoEtag == 0
NoObject == [etag |-> NoEtag]
None == [none |-> TRUE]
NoResult == [kind |-> "none"]
\* No builder, parser or derivation has been applied yet.
NoCodec == [op |-> "none"]

CalTools == {"create_event", "get_event", "update_event", "delete_event",
             "create_todo", "update_todo", "delete_todo"}
CardTools == {"create_contact", "get_contact", "update_contact", "delete_contact"}
CreateTools == {"create_event", "create_todo", "create_contact"}
GetTools == {"get_event", "get_contact"}
UpdateTools == {"update_event", "update_todo", "update_contact"}
DeleteTools == {"delete_event", "delete_todo", "delete_contact"}
Tools == CalTools \cup CardTools

\* The listings of a calendar.
ListTools == {"list_events", "list_todos"}

Proto(tool) == IF tool \in CalTools \cup ListTools THEN "caldav" ELSE "carddav"

\* One invocation: the tool, the object URL it was given, where it stands,
\* the client it got, what it read and built, the request it has in flight,
\* how many fetches and writes it has issued, and how it ended.
Idle == [tool |-> "none", url |-> 0, pc |-> "idle", client |-> 0,
         args |-> None, etag |-> NoEtag, existing |-> None, merged |-> None,
         req |-> None, fetches |-> 0, writes |-> 0, result |-> NoResult]

Ended(slot, result) ==
    [Idle EXCEPT !.tool = slot.tool, !.url = slot.url, !.pc = "done",
                 !.client = slot.client, !.fetches = slot.fetches,
                 !.writes = slot.writes, !.result = result]

\* `throw new Error(...)`, or a rejected await that the handler does not catch.
Reject(slot, error) == Ended(slot, [kind |-> "rejected", error |-> error])

\* `return { content: [...] }`; status is the HTTP status of the last response.
Return(slot, success, status) ==
    Ended(slot, [kind |-> "returned", success |-> success, status |-> status])

(***************************************************************************)
(* The merge of an update: the request's value where the request has the   *)
(* field, the decoded value otherwise.                                     *)
(***************************************************************************)
\* A merge that replaces the record by the request.
PickReplacing(arg, old) == arg
Pick(arg, old) == IF arg # Undefined THEN arg ELSE old
PickDate(arg, old) == IF arg # UndefinedDate THEN arg ELSE old
PickNumber(arg, old) == IF arg # NoNumber THEN arg ELSE old

\* A merge that leaves the uid out of the merged record.
MergedUidLost(existing) == 0
MergedUid(existing) == existing.uid

MergedAllDay(all_day) == IF all_day # Undefined THEN all_day ELSE "false"

MergeEvent(existing, a) ==
    [uid |-> MergedUid(existing),
     summary |-> Pick(a.summary, existing.summary),
     dtstart |-> PickDate(a.start, existing.start),
     dtend |-> PickDate(a.end, existing.end),
     description |-> Pick(a.description, existing.description),
     location |-> Pick(a.location, existing.location),
     allDay |-> MergedAllDay(a.all_day)]

\* A merge that stamps every todo it writes.
MergedCompletedAlways(newStatus, existing, now) == now
\* A merge that carries the stored completed over.
MergedCompletedKept(newStatus, existing, now) == existing.completed
MergedCompleted(newStatus, existing, now) ==
    IF newStatus = "COMPLETED" THEN now ELSE NoNumber

MergeTodo(existing, a, now) ==
    LET newStatus == Pick(a.status, existing.status) IN
    [uid |-> MergedUid(existing),
     summary |-> Pick(a.summary, existing.summary),
     description |-> Pick(a.description, existing.description),
     due |-> PickDate(a.due, existing.due),
     priority |-> PickNumber(a.priority, existing.priority),
     status |-> newStatus,
     completed |-> MergedCompleted(newStatus, existing, now)]

MergeContact(existing, a) ==
    [uid |-> MergedUid(existing),
     full_name |-> Pick(a.full_name, existing.full_name),
     first_name |-> Pick(a.first_name, existing.first_name),
     last_name |-> Pick(a.last_name, existing.last_name),
     email |-> Pick(a.email, existing.email),
     phone |-> Pick(a.phone, existing.phone),
     org |-> Pick(a.org, existing.org),
     title |-> Pick(a.title, existing.title),
     note |-> Pick(a.note, existing.note)]

\* An update that hands no etag over: its PUT is unconditional.
WriteEtagNone(objects) == NoEtag
\* An update that hands over the etag of the version before the fetched one.
WriteEtagOlder(objects) == objects[1].etag - 1
\* The etag the update hands to updateCalendarObject / updateVCard.
WriteEtag(objects) == objects[1].etag

\* An update that carries the lines of the fetched text it does not know
\* over into the text it writes.
PutRequestKeeping(slot, objects, a, existing, merged, data) ==
    [slot EXCEPT !.pc = "put", !.args = a, !.etag = objects[1].etag,
                 !.existing = existing, !.merged = merged, !.writes = @ + 1,
                 !.req = [method |-> "PUT", url |-> slot.url,
                          data |-> data @@ objects[1].data,
                          ifMatch |-> objects[1].etag]]
\* The request of an update: a PUT of the rebuilt text, If-Match the etag.
PutRequest(slot, objects, a, existing, merged, data) ==
    [slot EXCEPT !.pc = "put", !.args = a, !.etag = objects[1].etag,
                 !.existing = existing, !.merged = merged, !.writes = @ + 1,
                 !.req = [method |-> "PUT", url |-> slot.url, data |-> data,
                          ifMatch |-> WriteEtag(objects)]]

(***************************************************************************)
(* The handlers after their fetch has been answered with `objects`.        *)
(***************************************************************************)
\* A get that does not look at the number of objects.
OnFetchedGetEventUnchecked(slot, objects) == Return(slot, Undefined, 207)
OnFetchedGetEvent(slot, objects) ==
    IF Len(objects) = 0 THEN Reject(slot, "Event not found")
    ELSE Return(slot, Undefined, 207)

OnFetchedGetContact(slot, objects) ==
    IF Len(objects) = 0 THEN Reject(slot, "Contact not found")
    ELSE Return(slot, Undefined, 207)

OnFetchedUpdateEvent(slot, objects, a, now) ==
    IF Len(objects) = 0 THEN Reject(slot, "Event not found")
    ELSE LET parsed == parseIcalObjects(objects[1].data, "VEVENT") IN
         IF Len(parsed) = 0 THEN Reject(slot, "No VEVENT found in object")
         ELSE LET merged == MergeEvent(parsed[1], a) IN
              PutRequest(slot, objects, a, parsed[1], merged,
                         buildVEvent(merged, now))

OnFetchedUpdateTodo(slot, objects, a, now) ==
    IF Len(objects) = 0 THEN Reject(slot, "Todo not found")
    ELSE LET parsed == parseIcalObjects(objects[1].data, "VTODO") IN
         IF Len(parsed) = 0 THEN Reject(slot, "No VTODO found in object")
         ELSE LET merged == MergeTodo(parsed[1], a, now) IN
              PutRequest(slot, objects, a, parsed[1], merged,
                         buildVTodo(merged, now))

OnFetchedUpdateContact(slot, objects, a) ==
    IF Len(objects) = 0 THEN Reject(slot, "Contact not found")
    ELSE LET existing == parseVCard(objects[1].data)
             merged == MergeContact(existing, a) IN
         PutRequest(slot, objects, a, existing, merged, buildVCard(merged))

\* An update that answers a conflict with a second, unconditional PUT.
UpdateOutcomeRetry(slot, status) ==
    IF status = 412
    THEN [slot EXCEPT !.writes = @ + 1, !.req.ifMatch = NoEtag]
    ELSE Return(slot, "true", status)
\* What an update returns once its PUT has been answered with `status`:
\* the library hands the response back and the handler does not look at it.
UpdateOutcome(slot, status) == Return(slot, "true", status)

(***************************************************************************)
(* The DAV server.  It answers every request made with credentials it      *)
(* does not accept with 401.  It hands out a new etag with every write and *)
(* applies a PUT that carries If-Match only to the version named.          *)
(***************************************************************************)
Exists(url) == store[url] # NoObject

\* The objects a multiget for one object URL returns.
Multiget(url) ==
    IF Exists(url)
    THEN << [url |-> url, etag |-> store[url].etag, data |-> store[url].data] >>
    ELSE << >>

PutStatus(req) ==
    IF ~credsOk THEN 401
    ELSE IF req.ifMatch = NoEtag THEN (IF Exists(req.url) THEN 204 ELSE 201)
    ELSE IF Exists(req.url) /\ store[req.url].etag = req.ifMatch THEN 204
    ELSE 412

Written(url, data) ==
    [store EXCEPT ![url] = [etag |-> etagCtr + 1, data |-> data]]

(***************************************************************************)
(* The lazy clients.                                                       *)
(***************************************************************************)
Handle(proto) == IF proto = "caldav" THEN caldavClient ELSE carddavClient

\* A getter that would set the handle only after the login.
HandleDeferred(old, made) == old
\* `caldavClient = new DAVClient(...)`: the handle is set before login is awaited.
HandleAfterNew(old, made) == made

SetHandle(proto, h) ==
    IF proto = "caldav"
    THEN caldavClient' = h /\ UNCHANGED carddavClient
    ELSE carddavClient' = h /\ UNCHANGED caldavClient

(***************************************************************************)
(* Collection names.  A name is the sequence of its characters; the path   *)
(* segment of a new collection is derived from it.                         *)
(***************************************************************************)
\* longest name drawn for the derivation
MaxNameLen == 3

UpperLetters == <<"A", "B", "C", "D", "E", "F", "G", "H", "I", "J", "K", "L", "M",
                  "N", "O", "P", "Q", "R", "S", "T", "U", "V", "W", "X", "Y", "Z">>
LowerLetters == <<"a", "b", "c", "d", "e", "f", "g", "h", "i", "j", "k", "l", "m",
                  "n", "o", "p", "q", "r", "s", "t", "u", "v", "w", "x", "y", "z">>
Digits == {"0", "1", "2", "3", "4", "5", "6", "7", "8", "9"}
\* [a-z0-9]
AlphaNumeric == {LowerLetters[i] : i \in DOMAIN LowerLetters} \cup Digits

LowerChar(ch) ==
    IF \E i \in DOMAIN UpperLetters : UpperLetters[i] = ch
    THEN LowerLetters[CHOOSE i \in DOMAIN UpperLetters : UpperLetters[i] = ch]
    ELSE ch

\* name.toLowerCase()
toLowerCase_(name) == [i \in DOMAIN name |-> LowerChar(name[i])]

RECURSIVE SkipRun(_)
\* The rest of the string after the run of other characters it starts with.
SkipRun(str) ==
    IF str # << >> /\ Head(str) \notin AlphaNumeric THEN SkipRun(Tail(str)) ELSE str

RECURSIVE ReplaceRuns(_)
\* .replace(/[^a-z0-9]+/g, "-")
ReplaceRuns(str) ==
    IF str = << >> THEN << >>
    ELSE IF Head(str) \in AlphaNumeric THEN <<Head(str)>> \o ReplaceRuns(Tail(str))
    ELSE <<"-">> \o ReplaceRuns(SkipRun(str))

\* A derivation that keeps the hyphens at the ends.
TrimNothing(str) == str
\* .replace(/(^-|-$)/g, "")
TrimHyphens(str) ==
    LET a == IF str # << >> /\ Head(str) = "-" THEN Tail(str) ELSE str IN
    IF a # << >> /\ a[Len(a)] = "-" THEN SubSeq(a, 1, Len(a) - 1) ELSE a

\* create_calendar: slug
CalendarSlug(name) == TrimHyphens(ReplaceRuns(toLowerCase_(name)))
\* create_address_book: slug
AddressBookSlug(name) == TrimHyphens(ReplaceRuns(toLowerCase_(name)))

NameChars == {"A", "b", "1", " ", "-"}
\* z.string().min(1)
Names == UNION {[1..n -> NameChars] : n \in 1..MaxNameLen}

(***************************************************************************)
(* The collection tools.  create_calendar and the two listings go through  *)
(* a session; the other three send their request with fetch.  A collection *)
(* URL is the user's path it lies under (home) and its segment.            *)
(***************************************************************************)
CollectionListTools == {"list_calendars", "list_address_books"}
CollectionTools == {"create_calendar", "create_address_book",
                    "delete_calendar", "delete_address_book"} \cup CollectionListTools

\* The session a collection tool asks for, "none" where it asks for none.
CollectionProto(tool) ==
    CASE tool \in {"create_calendar", "list_calendars"} -> "caldav"
      [] tool = "list_address_books" -> "carddav"
      [] OTHER -> "none"

\* client.makeCalendar({ url: calUrl, props: { displayname: name } })
MakeCalendarRequest(slot) ==
    [slot EXCEPT !.pc = "mkcalendar", !.writes = @ + 1,
                 !.req = [method |-> "MKCALENDAR", home |-> RADICALE_USERNAME,
                          url |-> CalendarSlug(slot.args.name),
                          kind |-> "calendar", displayname |-> slot.args.name]]

\* fetch(bookUrl, { method: "MKCOL", ... })
MakeAddressBookRequest(slot) ==
    [slot EXCEPT !.pc = "mkcol", !.writes = @ + 1,
                 !.req = [method |-> "MKCOL", home |-> RADICALE_USERNAME,
                          url |-> AddressBookSlug(slot.args.name),
                          kind |-> "addressbook", displayname |-> slot.args.name]]

\* fetch(calendar_url, { method: "DELETE", ... })
DeleteCollectionRequest(slot) ==
    [slot EXCEPT !.pc = "delcol", !.writes = @ + 1,
                 !.req = [method |-> "DELETE", url |-> slot.args.url]]

\* client.fetchCalendars() / client.fetchAddressBooks(): the collections of
\* the account the session was opened on.
DiscoverRequest(slot) ==
    [slot EXCEPT !.pc = "discover", !.fetches = @ + 1,
                 !.req = [method |-> "PROPFIND", home |-> Owner,
                          kind |-> IF slot.tool = "list_calendars"
                                   THEN "calendar" ELSE "addressbook"]]

\* The first request of a collection tool.
CollectionRequest(slot) ==
    CASE slot.tool = "create_calendar" -> MakeCalendarRequest(slot)
      [] slot.tool = "create_address_book" -> MakeAddressBookRequest(slot)
      [] slot.tool \in CollectionListTools -> DiscoverRequest(slot)
      [] OTHER -> DeleteCollectionRequest(slot)

\* A test of the response that lets every status pass.
ResponseOkAlways(status) == TRUE
\* res.ok
ResponseOk(status) == status \in 200..299

\* `throw new Error(`${message}: ${res.status} ${await res.text()}`)`
RejectResponse(slot, message, status, body) ==
    Ended(slot, [kind |-> "rejected", error |-> message,
                 status |-> status, body |-> body])

\* create_calendar after makeCalendar has resolved: the responses it
\* resolved to are not looked at.
CreateCalendarOutcome(slot, status) == Return(slot, "true", status)

CreateAddressBookOutcome(slot, status, body) ==
    IF ~ResponseOk(status)
    THEN RejectResponse(slot, "Failed to create address book", status, body)
    ELSE Return(slot, "true", status)

DeleteCollectionOutcome(slot, status, body) ==
    IF ~ResponseOk(status)
    THEN RejectResponse(slot,
                        IF slot.tool = "delete_calendar"
                        THEN "Failed to delete calendar"
                        ELSE "Failed to delete address book",
                        status, body)
    ELSE Return(slot, "true", status)

(***************************************************************************)
(* The step of a handler that follows `await get...Client()`: it builds    *)
(* what it sends and issues its first request.  P holds the sets the       *)
(* arguments are drawn from.                                               *)
(***************************************************************************)
CreateArgs(P, tool) ==
    CASE tool = "create_event" -> P.createEvent
      [] tool = "create_todo" -> P.createTodo
      [] tool = "create_contact" -> P.createContact

CreateData(tool, a, uid, now) ==
    CASE tool = "create_event" ->
           buildVEvent([uid |-> uid, summary |-> a.summary, dtstart |-> a.start,
                        dtend |-> a.end, description |-> a.description,
                        location |-> a.location, allDay |-> a.all_day], now)
      [] tool = "create_todo" ->
           buildVTodo([uid |-> uid, summary |-> a.summary,
                       description |-> a.description, due |-> a.due,
                       priority |-> a.priority, status |-> "NEEDS-ACTION",
                       completed |-> NoNumber], now)
      [] tool = "create_contact" ->
           buildVCard([uid |-> uid] @@ a)

\* A delete that names the version the object was created with.
DeleteRequestVersioned(slot) ==
    [slot EXCEPT !.pc = "delete", !.writes = @ + 1,
                 !.req = [method |-> "DELETE", url |-> slot.url, ifMatch |-> NoEtag + 1]]
\* client.deleteCalendarObject({ calendarObject: { url } }) and
\* client.deleteVCard({ vCard: { url } }): no etag is handed over.
DeleteRequest(slot) ==
    [slot EXCEPT !.pc = "delete", !.writes = @ + 1,
                 !.req = [method |-> "DELETE", url |-> slot.url, ifMatch |-> NoEtag]]

\* A listing that restricts the fetch as soon as start is given.
TimeRangeFromStart(a) ==
    IF TruthyDate(a.start)
    THEN [start |-> IsoMillis(a.start.day, a.start.hour),
          end |-> IsoMillis(a.end.day, a.end.hour)]
    ELSE None
\* list_events: `start && end ? { start: new Date(start).toISOString(),
\* end: new Date(end).toISOString() } : undefined`
TimeRangeOf(a) ==
    IF TruthyDate(a.start) /\ TruthyDate(a.end)
    THEN [start |-> IsoMillis(a.start.day, a.start.hour),
          end |-> IsoMillis(a.end.day, a.end.hour)]
    ELSE None

\* list_events up to its fetch: toISOString throws on a Date made from a
\* string that is no date.
ListEventsRequest(slot, a) ==
    IF TimeRangeOf(a) # None /\ InvalidDate \in {a.start, a.end}
    THEN Reject(slot, "Invalid time value")
    ELSE [slot EXCEPT !.pc = "fetch", !.args = a, !.fetches = @ + 1,
                      !.req = [method |-> "REPORT", url |-> slot.url,
                               timeRange |-> TimeRangeOf(a)]]

Request(P, s, slot) ==
    IF slot.tool \in CollectionTools
    THEN /\ inv' = [inv EXCEPT ![s] = CollectionRequest(slot)]
         /\ UNCHANGED <<uidCtr, clock>>
    ELSE IF slot.tool \in CreateTools
    THEN /\ uidCtr < MaxObjects
         /\ \E a \in CreateArgs(P, slot.tool) :
              inv' = [inv EXCEPT ![s] =
                        [slot EXCEPT !.pc = "create", !.args = a,
                                     !.url = uidCtr + 1, !.writes = @ + 1,
                                     !.req = [method |-> "PUT", url |-> uidCtr + 1,
                                              data |-> CreateData(slot.tool, a,
                                                                  uidCtr + 1, clock + 1),
                                              ifMatch |-> NoEtag]]]
         /\ uidCtr' = uidCtr + 1
         /\ clock' = IF slot.tool = "create_contact" THEN clock ELSE clock + 1
    ELSE IF slot.tool = "list_events"
    THEN /\ \E a \in P.listEvents :
              inv' = [inv EXCEPT ![s] = ListEventsRequest(slot, a)]
         /\ UNCHANGED <<uidCtr, clock>>
    ELSE /\ inv' = [inv EXCEPT ![s] =
                      IF slot.tool \in DeleteTools THEN DeleteRequest(slot)
                      ELSE [slot EXCEPT !.pc = "fetch", !.fetches = @ + 1,
                                        !.req = [method |-> "REPORT", url |-> slot.url]]]
         /\ UNCHANGED <<uidCtr, clock>>

\* Creates that wait for their login and will draw a uid.
PendingCreates ==
    Cardinality({t \in DOMAIN inv : inv[t].pc = "login" /\ inv[t].tool \in CreateTools})

(***************************************************************************)
(* Actions.                                                                *)
(***************************************************************************)
\* A tool is invoked: the handler runs up to its first await that leaves
\* the process (the login of a new client, or its first request).
StartCall(P, s, tool, url) ==
    /\ inv[s].pc = "idle"
    /\ calls < P.maxCalls
    /\ calls' = calls + 1
    /\ tool \in CreateTools => url = 0 /\ uidCtr + PendingCreates < MaxObjects
    /\ tool \in ListTools => url = 0
    /\ tool \notin CreateTools \cup ListTools => url \in Urls
    /\ LET h == Handle(Proto(tool))
           made == Len(sessions) + 1 IN
       IF h = 0
       THEN /\ sessions' = Append(sessions, [proto |-> Proto(tool), login |-> "pending"])
            /\ SetHandle(Proto(tool), HandleAfterNew(h, made))
            /\ inv' = [inv EXCEPT ![s] =
                         [Idle EXCEPT !.tool = tool, !.url = url, !.pc = "login",
                                      !.client = made]]
            /\ UNCHANGED <<uidCtr, clock>>
       ELSE /\ Request(P, s, [Idle EXCEPT !.tool = tool, !.url = url, !.client = h])
            /\ UNCHANGED <<sessions, caldavClient, carddavClient>>
    /\ UNCHANGED <<store, etagCtr, foreign, credsOk, collections, codec, calendarOwner>>

\* A handler that goes on to a fetch after the login was rejected.
LoginFailedGoesOn(slot) ==
    [slot EXCEPT !.pc = "fetch", !.fetches = @ + 1,
                 !.req = [method |-> "REPORT", url |-> slot.url, timeRange |-> None]]
\* `await caldavClient.login()` rejects inside the getter: the getter's
\* promise rejects and with it the handler that awaits it.
LoginFailed(slot) == Reject(slot, "login failed")

\* `await client.login()` settles: resolved, the handler goes on to its
\* request; rejected, the invocation is rejected.
LoginDone(P, s) ==
    /\ inv[s].pc = "login"
    /\ sessions' = [sessions EXCEPT ![inv[s].client].login =
                       IF credsOk THEN "ok" ELSE "failed"]
    /\ IF credsOk
       THEN Request(P, s, inv[s])
       ELSE /\ inv' = [inv EXCEPT ![s] = LoginFailed(inv[s])]
            /\ UNCHANGED <<uidCtr, clock>>
    /\ UNCHANGED <<store, etagCtr, calls, foreign, credsOk, caldavClient, carddavClient,
                   collections, codec, calendarOwner>>

\* { ...obj, url, etag }
summariseCalObject(obj, url, etag) == obj @@ [url |-> url, etag |-> etag]

RECURSIVE ListEntries(_, _)
\* objects.map(o => parseIcalObjects(o.data, type).map(...)).flat().filter(e => e.uid)
ListEntries(objects, type) ==
    IF objects = << >> THEN << >>
    ELSE LET o == Head(objects)
             parsed == parseIcalObjects(o.data, type) IN
         SelectSeq([i \in DOMAIN parsed |-> summariseCalObject(parsed[i], o.url, o.etag)],
                   LAMBDA e : e.uid # 0)
           \o ListEntries(Tail(objects), type)

\* `return { content: [...] }` of a listing.
ReturnList(slot, results) ==
    Ended(slot, [kind |-> "returned", success |-> Undefined, status |-> 207,
                 results |-> results])

\* A listing that fails on an object without an event.
OnFetchedListEventsStrict(slot, objects) ==
    IF \E i \in DOMAIN objects : parseIcalObjects(objects[i].data, "VEVENT") = << >>
    THEN Reject(slot, "No VEVENT found in object")
    ELSE ReturnList(slot, ListEntries(objects, "VEVENT"))
OnFetchedListEvents(slot, objects) == ReturnList(slot, ListEntries(objects, "VEVENT"))

OnFetchedListTodos(slot, objects, a) ==
    ReturnList(slot,
               SelectSeq(ListEntries(objects, "VTODO"),
                         LAMBDA t : Truthy(a.show_completed) \/ t.status # "COMPLETED"))

RECURSIVE StoredFrom(_, _)
\* The stored objects at the URLs from url on whose component is in comps.
StoredFrom(url, comps) ==
    IF url > MaxObjects THEN << >>
    ELSE (IF Exists(url) /\ store[url].data.comp \in comps THEN Multiget(url) ELSE << >>)
           \o StoredFrom(url + 1, comps)

\* Hours since the start of the month.
Instant(v) == v.day * 24 + v.hour

\* The server's time-range test of an event: it starts before the end of
\* the range and ends after its start; without DTEND it ends as it starts.
InRange(data, range) ==
    /\ Instant(data.DTSTART) < Instant(range.end)
    /\ IF data.DTEND = NoDateLine THEN Instant(data.DTSTART) >= Instant(range.start)
       ELSE Instant(data.DTEND) > Instant(range.start)

\* What the fetch of an invocation can be answered with.  A get or an update
\* asks for one object URL.  A listing asks for the objects of the calendar;
\* the query the library sends may ask the server for events only.
Fetched(slot) ==
    IF slot.tool = "list_events" /\ slot.req.timeRange # None
    THEN {SelectSeq(StoredFrom(1, {"VEVENT"}),
                    LAMBDA o : InRange(o.data, slot.req.timeRange))}
    ELSE IF slot.tool \in ListTools
    THEN {StoredFrom(1, {"VEVENT", "VTODO"}), StoredFrom(1, {"VEVENT"})}
    ELSE {Multiget(slot.url)}

UpdateArgs(P, tool) ==
    CASE tool = "update_event" -> P.updateEvent
      [] tool = "update_todo" -> P.updateTodo
      [] tool = "update_contact" -> P.updateContact
      [] tool = "list_todos" -> P.listTodos
      [] OTHER -> {None}

OnFetched(slot, objects, a, now) ==
    CASE slot.tool = "get_event" -> OnFetchedGetEvent(slot, objects)
      [] slot.tool = "get_contact" -> OnFetchedGetContact(slot, objects)
      [] slot.tool = "update_event" -> OnFetchedUpdateEvent(slot, objects, a, now)
      [] slot.tool = "update_todo" -> OnFetchedUpdateTodo(slot, objects, a, now)
      [] slot.tool = "update_contact" -> OnFetchedUpdateContact(slot, objects, a)
      [] slot.tool = "list_events" -> OnFetchedListEvents(slot, objects)
      [] slot.tool = "list_todos" -> OnFetchedListTodos(slot, objects, a)

\* The fetch of a get or an update is answered and the handler runs on: to
\* its result, or (an update) through decode, merge and encode to its PUT.
\* A fetch the server refuses leaves the handler nothing to decode.
ServerFetch(P, s) ==
    /\ inv[s].pc = "fetch"
    /\ IF ~credsOk
       THEN /\ inv' = [inv EXCEPT ![s] = Reject(inv[s], "fetch refused")]
            /\ UNCHANGED clock
       ELSE \E a \in UpdateArgs(P, inv[s].tool), objects \in Fetched(inv[s]) :
              LET next == OnFetched(inv[s], objects, a, clock + 1) IN
              /\ inv' = [inv EXCEPT ![s] = next]
              /\ clock' = IF next.pc = "put" /\ inv[s].tool # "update_contact"
                          THEN clock + 1 ELSE clock
    /\ UNCHANGED <<store, etagCtr, uidCtr, calls, foreign, credsOk,
                   caldavClient, carddavClient, sessions, collections, codec, calendarOwner>>

\* The PUT of an update is answered.
ServerPut(s) ==
    /\ inv[s].pc = "put"
    /\ LET status == PutStatus(inv[s].req) IN
       /\ IF status \in {201, 204}
          THEN /\ store' = Written(inv[s].req.url, inv[s].req.data)
               /\ etagCtr' = etagCtr + 1
          ELSE UNCHANGED <<store, etagCtr>>
       /\ inv' = [inv EXCEPT ![s] = UpdateOutcome(inv[s], status)]
    /\ UNCHANGED <<uidCtr, clock, calls, foreign, credsOk,
                   caldavClient, carddavClient, sessions, collections, codec, calendarOwner>>

\* What a create or a delete returns once its request has been answered.
CreateOutcome(slot, status) == Return(slot, "true", status)
DeleteOutcome(slot, status) == Return(slot, "true", status)

\* The PUT of a create is answered: the uid is fresh, so is the URL.
ServerCreate(s) ==
    /\ inv[s].pc = "create"
    /\ IF credsOk
       THEN /\ store' = Written(inv[s].req.url, inv[s].req.data)
            /\ etagCtr' = etagCtr + 1
       ELSE UNCHANGED <<store, etagCtr>>
    /\ inv' = [inv EXCEPT ![s] = CreateOutcome(inv[s], IF credsOk THEN 201 ELSE 401)]
    /\ UNCHANGED <<uidCtr, clock, calls, foreign, credsOk,
                   caldavClient, carddavClient, sessions, collections, codec, calendarOwner>>

\* The server's answer to the DELETE of an object: one that carries
\* If-Match is applied only to the version named.
DeleteObjectStatus(req) ==
    IF ~credsOk THEN 401
    ELSE IF ~Exists(req.url) THEN 404
    ELSE IF req.ifMatch # NoEtag /\ store[req.url].etag # req.ifMatch THEN 412
    ELSE 204

\* The DELETE of a delete is answered.
ServerDelete(s) ==
    /\ inv[s].pc = "delete"
    /\ LET url == inv[s].req.url
           status == DeleteObjectStatus(inv[s].req) IN
       /\ store' = IF status = 204 THEN [store EXCEPT ![url] = NoObject] ELSE store
       /\ inv' = [inv EXCEPT ![s] = DeleteOutcome(inv[s], status)]
    /\ UNCHANGED <<etagCtr, uidCtr, clock, calls, foreign, credsOk,
                   caldavClient, carddavClient, sessions, collections, codec, calendarOwner>>

\* The result has been handed to the tool surface; the slot is free again.
Finish(s) ==
    /\ inv[s].pc = "done"
    /\ inv' = [inv EXCEPT ![s] = Idle]
    /\ UNCHANGED <<store, etagCtr, uidCtr, clock, calls, foreign, credsOk,
                   caldavClient, carddavClient, sessions, collections, codec, calendarOwner>>

\* Another client of the server rewrites a stored object: new title, new
\* etag, and under OTHER what the adapter's builders never write: an ADR or
\* a second EMAIL of a contact, an RRULE or a further component of a
\* calendar object.
Rewritten(data) ==
    IF data.comp = "VCARD" THEN [data EXCEPT !.FN = "Z"] @@ [OTHER |-> "ADR"]
    ELSE [data EXCEPT !.SUMMARY = "Z"] @@ [OTHER |-> "RRULE"]

OtherWriter(url) ==
    /\ Exists(url)
    /\ foreign < MaxForeign
    /\ foreign' = foreign + 1
    /\ store' = Written(url, Rewritten(store[url].data))
    /\ etagCtr' = etagCtr + 1
    /\ UNCHANGED <<uidCtr, clock, calls, credsOk, caldavClient, carddavClient,
                   sessions, inv, collections, codec, calendarOwner>>

(***************************************************************************)
(* The argument sets of the specifications.                                *)
(***************************************************************************)
ContactFields == {"full_name", "first_name", "last_name", "email", "phone",
                  "org", "title", "note"}
NoContactArgs == [f \in ContactFields |-> Undefined]

\* Two invocations at a time, every tool, one request per tool.
Small ==
    [slots |-> {"a", "b"},
     maxCalls |-> MaxCalls,
     owners |-> {Undefined},
     tools |-> Tools,
     createEvent |->
        [summary : {"A"}, start : {IsoInstant(1, 9)}, end : {UndefinedDate},
         description : {Undefined}, location : {"X"}, all_day : {Undefined}],
     updateEvent |->
        [summary : {"B"}, start : {UndefinedDate}, end : {UndefinedDate},
         description : {Undefined}, location : {Undefined}, all_day : {Undefined}],
     createTodo |->
        [summary : {"A"}, description : {Undefined}, due : {UndefinedDate},
         priority : {NoNumber}],
     updateTodo |->
        [summary : {Undefined}, description : {Undefined}, due : {UndefinedDate},
         status : {"COMPLETED", "IN-PROCESS"}, priority : {NoNumber}],
     createContact |-> {[NoContactArgs EXCEPT !.full_name = "Bo"]},
     updateContact |-> {[NoContactArgs EXCEPT !.email = "F"]}]

\* The requests of R that supply at most MaxFields fields; `none` is the
\* request that supplies no field.
Sparse(R, none) ==
    {r \in R : Cardinality({f \in DOMAIN r : r[f] # none[f]}) <= MaxFields}

\* One invocation at a time; an update may supply any of its fields.
Rich ==
    [slots |-> {"a"},
     maxCalls |-> MaxMergeCalls,
     owners |-> {Undefined},
     tools |-> Tools \cup ListTools,
     listTodos |-> [show_completed : {Undefined, "true"}],
     listEvents |-> [start : {UndefinedDate, EmptyDate, IsoInstant(2, 0)},
                     end : {UndefinedDate, IsoInstant(2, 9), InvalidDate}],
     createEvent |->
        [summary : {"A"}, start : {IsoInstant(1, 9)},
         end : {UndefinedDate, IsoInstant(2, 9)}, description : {Undefined, "D"},
         location : {"X"}, all_day : {Undefined, "true"}],
     updateEvent |->
        Sparse([summary : {Undefined, "B"}, start : {UndefinedDate, IsoInstant(2, 0)},
                end : {UndefinedDate, IsoInstant(2, 9)},
                description : {Undefined, "E"}, location : {Undefined, ""},
                all_day : {Undefined, "true", "false"}],
               [summary |-> Undefined, start |-> UndefinedDate, end |-> UndefinedDate,
                description |-> Undefined, location |-> Undefined,
                all_day |-> Undefined]),
     createTodo |->
        [summary : {"A"}, description : {Undefined, "D"},
         due : {UndefinedDate, IsoInstant(1, 9)}, priority : {NoNumber, 5}],
     updateTodo |->
        Sparse([summary : {Undefined, "B"}, description : {Undefined, ""},
                due : {UndefinedDate, IsoInstant(2, 9)},
                status : {Undefined, "NEEDS-ACTION", "IN-PROCESS", "COMPLETED",
                          "CANCELLED"},
                priority : {NoNumber, 0, 1}],
               [summary |-> Undefined, description |-> Undefined,
                due |-> UndefinedDate, status |-> Undefined, priority |-> NoNumber]),
     createContact |->
        {[NoContactArgs EXCEPT !.full_name = "Bo", !.email = "E", !.org = "O"],
         [NoContactArgs EXCEPT !.first_name = "Ann", !.last_name = "Lee", !.note = "N"],
         [NoContactArgs EXCEPT !.full_name = BlankFirstLine],
         NoContactArgs},
     updateContact |->
        Sparse([full_name : {Undefined, "", "Cy"}, first_name : {Undefined, "Al"},
                last_name : {Undefined, ""}, email : {Undefined, "F"},
                phone : {Undefined, "P"}, org : {Undefined, ""},
                title : {Undefined, "T"}, note : {Undefined, "M"}],
               NoContactArgs)]

InitOver(P) ==
    /\ store = [u \in Urls |-> NoObject]
    /\ etagCtr = 0
    /\ uidCtr = 0
    /\ clock = 0
    /\ calls = 0
    /\ foreign = 0
    /\ credsOk \in BOOLEAN
    /\ caldavClient = 0
    /\ carddavClient = 0
    /\ sessions = << >>
    /\ inv = [s \in P.slots |-> Idle]
    /\ collections = {}
    /\ codec = NoCodec
    /\ calendarOwner \in P.owners

\* The steps of the adapter and of the server answering it.
Step(P) ==
    \/ \E s \in P.slots, tool \in P.tools, url \in {0} \cup Urls :
          StartCall(P, s, tool, url)
    \/ \E s \in P.slots : LoginDone(P, s)
    \/ \E s \in P.slots : ServerFetch(P, s)
    \/ \E s \in P.slots : ServerPut(s)
    \/ \E s \in P.slots : ServerCreate(s)
    \/ \E s \in P.slots : ServerDelete(s)
    \/ \E s \in P.slots : Finish(s)

Init == InitOver(Small)
Next == Step(Small) \/ \E url \in Urls : OtherWriter(url)
Spec == Init /\ [][Next]_vars

InitMerge == InitOver(Rich)
NextMerge == Step(Rich)
SpecMerge == InitMerge /\ [][NextMerge]_vars

(***************************************************************************)
(* The collection tools against the server.  A collection is its path      *)
(* segment under the user's path, its kind and its display name.           *)
(***************************************************************************)
\* tool invocations started in one run of the collection specification
MaxCollCalls == 3

\* The names drawn for new collections: two of them derive the same segment.
CollNames == {<<"A", " ", "b">>, <<"a", "-", "b">>, <<"1">>}
\* The collection URLs drawn for a delete.
CollUrls == {CalendarSlug(n) : n \in CollNames}

\* The owner override is not set, or names another user.
Coll == [slots |-> {"a"}, maxCalls |-> MaxCollCalls, owners |-> {Undefined, "shared"}]

\* The collection at a URL under the user's path.
CollectionAt(url) ==
    {c \in collections : c.home = RADICALE_USERNAME /\ c.segment = url}

\* The answer to the discovery of an account's collections of one kind.
Discovered(req) == {c \in collections : c.home = req.home /\ c.kind = req.kind}

\* The server's answer to MKCALENDAR or MKCOL: a collection is made where
\* there is none.
MakeStatus(url) ==
    IF ~credsOk THEN 401
    ELSE IF CollectionAt(url) # {} THEN 409
    ELSE 201

\* The server's answer to DELETE of a collection URL.
DeleteStatus(url) ==
    IF ~credsOk THEN 401
    ELSE IF CollectionAt(url) = {} THEN 404
    ELSE 200

\* The body of a response.
ResponseBody(status) ==
    CASE status = 401 -> "Unauthorized"
      [] status = 404 -> "Not Found"
      [] status = 409 -> "Conflict"
      [] OTHER -> ""

Made(req) ==
    collections \cup {[home |-> req.home, segment |-> req.url, kind |-> req.kind,
                       displayname |-> req.displayname]}

\* A collection tool is invoked and runs up to its first await that leaves
\* the process.
StartCollection(s, tool, name, url) ==
    /\ inv[s].pc = "idle"
    /\ calls < Coll.maxCalls
    /\ calls' = calls + 1
    /\ LET slot == [Idle EXCEPT !.tool = tool,
                                !.args = IF tool \in {"create_calendar",
                                                      "create_address_book"}
                                         THEN [name |-> name]
                                         ELSE IF tool \in CollectionListTools
                                         THEN None ELSE [url |-> url]] IN
       IF CollectionProto(tool) # "none"
       THEN LET h == Handle(CollectionProto(tool))
                made == Len(sessions) + 1 IN
            IF h = 0
            THEN /\ sessions' = Append(sessions, [proto |-> CollectionProto(tool),
                                                  login |-> "pending"])
                 /\ SetHandle(CollectionProto(tool), HandleAfterNew(h, made))
                 /\ inv' = [inv EXCEPT ![s] = [slot EXCEPT !.pc = "login",
                                                           !.client = made]]
            ELSE /\ inv' = [inv EXCEPT ![s] =
                              CollectionRequest([slot EXCEPT !.client = h])]
                 /\ UNCHANGED <<sessions, caldavClient, carddavClient>>
       ELSE /\ inv' = [inv EXCEPT ![s] = CollectionRequest(slot)]
            /\ UNCHANGED <<sessions, caldavClient, carddavClient>>
    /\ UNCHANGED <<store, etagCtr, uidCtr, clock, foreign, credsOk, collections, codec,
                   calendarOwner>>

\* makeCalendar is answered.
ServerMakeCalendar(s) ==
    /\ inv[s].pc = "mkcalendar"
    /\ LET status == MakeStatus(inv[s].req.url) IN
       /\ collections' = IF status = 201 THEN Made(inv[s].req) ELSE collections
       /\ inv' = [inv EXCEPT ![s] = CreateCalendarOutcome(inv[s], status)]
    /\ UNCHANGED <<store, etagCtr, uidCtr, clock, calls, foreign, credsOk,
                   caldavClient, carddavClient, sessions, codec, calendarOwner>>

\* The MKCOL of create_address_book is answered.
ServerMakeAddressBook(s) ==
    /\ inv[s].pc = "mkcol"
    /\ LET status == MakeStatus(inv[s].req.url) IN
       /\ collections' = IF status = 201 THEN Made(inv[s].req) ELSE collections
       /\ inv' = [inv EXCEPT ![s] =
                    CreateAddressBookOutcome(inv[s], status, ResponseBody(status))]
    /\ UNCHANGED <<store, etagCtr, uidCtr, clock, calls, foreign, credsOk,
                   caldavClient, carddavClient, sessions, codec, calendarOwner>>

\* The DELETE of delete_calendar or delete_address_book is answered.
ServerDeleteCollection(s) ==
    /\ inv[s].pc = "delcol"
    /\ LET status == DeleteStatus(inv[s].req.url) IN
       /\ collections' = IF status = 200 THEN collections \ CollectionAt(inv[s].req.url)
                         ELSE collections
       /\ inv' = [inv EXCEPT ![s] =
                    DeleteCollectionOutcome(inv[s], status, ResponseBody(status))]
    /\ UNCHANGED <<store, etagCtr, uidCtr, clock, calls, foreign, credsOk,
                   caldavClient, carddavClient, sessions, codec, calendarOwner>>

\* The discovery of a listing is answered.
ServerDiscover(s) ==
    /\ inv[s].pc = "discover"
    /\ inv' = [inv EXCEPT ![s] =
                 IF ~credsOk THEN Reject(inv[s], "fetch refused")
                 ELSE ReturnList(inv[s], Discovered(inv[s].req))]
    /\ UNCHANGED <<store, etagCtr, uidCtr, clock, calls, foreign, credsOk,
                   caldavClient, carddavClient, sessions, collections, codec,
                   calendarOwner>>

InitColl == InitOver(Coll)
NextColl ==
    \/ \E s \in Coll.slots, tool \in CollectionTools, name \in CollNames, url \in CollUrls :
          StartCollection(s, tool, name, url)
    \/ \E s \in Coll.slots : LoginDone(Coll, s)
    \/ \E s \in Coll.slots : ServerMakeCalendar(s)
    \/ \E s \in Coll.slots : ServerMakeAddressBook(s)
    \/ \E s \in Coll.slots : ServerDeleteCollection(s)
    \/ \E s \in Coll.slots : ServerDiscover(s)
    \/ \E s \in Coll.slots : Finish(s)
SpecColl == InitColl /\ [][NextColl]_vars

(***************************************************************************)
(* The builders, parsers and derivations applied on their own: one action  *)
(* applies one of them to an input drawn from a bounded set.               *)
(***************************************************************************)
\* The records buildVEvent is given: by create_event from its arguments, by
\* update_event from its merge.
EventRecords ==
    [uid : {1},
     summary : {"A", ""},
     dtstart : {IsoInstant(1, 9), IsoDateOnly(1), IsoMillis(2, 0)},
     dtend : {UndefinedDate, NullDate, IsoInstant(2, 9), IsoDateOnly(2)},
     description : {Undefined, "D", TwoLines},
     location : {Undefined, "", "X"},
     allDay : {Undefined, "false", "true"}]

DeriveSlug(name) ==
    /\ codec = NoCodec
    /\ codec' = [op |-> "slug", name |-> name,
                 calendar |-> CalendarSlug(name), book |-> AddressBookSlug(name)]
    /\ UNCHANGED <<store, etagCtr, uidCtr, clock, calls, foreign, credsOk,
                   caldavClient, carddavClient, sessions, inv, collections, calendarOwner>>

EncodeEvent(r) ==
    /\ codec = NoCodec
    /\ codec' = [op |-> "encoded", rec |-> r, text |-> buildVEvent(r, clock + 1)]
    /\ UNCHANGED <<store, etagCtr, uidCtr, clock, calls, foreign, credsOk,
                   caldavClient, carddavClient, sessions, inv, collections, calendarOwner>>

DecodeEvent ==
    /\ codec.op = "encoded"
    /\ codec' = [op |-> "decoded", rec |-> codec.rec, text |-> codec.text,
                 decoded |-> parseIcalObjects(codec.text, "VEVENT")]
    /\ UNCHANGED <<store, etagCtr, uidCtr, clock, calls, foreign, credsOk,
                   caldavClient, carddavClient, sessions, inv, collections, calendarOwner>>

(***************************************************************************)
(* vCard text as the parser reads it: a sequence of tokens, among them the *)
(* line breaks "\r\n" and "\n", the space, the colon and the semicolon.    *)
(***************************************************************************)
\* logical lines of a vCard text drawn for the parser
MaxVCardLines == 2

LineBreaks == {"\r\n", "\n"}

RECURSIVE RemoveCrlfSpace(_)
\* .replace(/\r\n /g, "")
RemoveCrlfSpace(text) ==
    IF text = << >> THEN << >>
    ELSE IF Len(text) >= 2 /\ text[1] = "\r\n" /\ text[2] = " "
    THEN RemoveCrlfSpace(SubSeq(text, 3, Len(text)))
    ELSE <<Head(text)>> \o RemoveCrlfSpace(Tail(text))

RECURSIVE SplitLines(_, _)
\* .split(/\r?\n/): `line` is the line read so far.
SplitLines(text, line) ==
    IF text = << >> THEN <<line>>
    ELSE IF Head(text) \in LineBreaks THEN <<line>> \o SplitLines(Tail(text), << >>)
    ELSE SplitLines(Tail(text), Append(line, Head(text)))

RECURSIVE Concat(_)
Concat(tokens) == IF tokens = << >> THEN "" ELSE Head(tokens) \o Concat(Tail(tokens))

\* The index of the first token of the line that is in `stops`, 0 if none.
FirstOf(line, stops) ==
    IF \E i \in DOMAIN line : line[i] \in stops
    THEN CHOOSE i \in DOMAIN line :
            line[i] \in stops /\ \A j \in 1..(i - 1) : line[j] \notin stops
    ELSE 0

\* line.match(/^([^:;]+)(?:;[^:]*)?:(.*)$/): the key and the value, or no match.
MatchLine(line) ==
    LET stop == FirstOf(line, {":", ";"})
        colon == FirstOf(line, {":"}) IN
    IF stop <= 1 \/ colon = 0 THEN [match |-> FALSE]
    ELSE [match |-> TRUE,
          key |-> Concat(SubSeq(line, 1, stop - 1)),
          val |-> SubSeq(line, colon + 1, Len(line))]

\* val.split(";")[i] || ""
PartOf(val, i) ==
    LET parts == SplitLines([k \in DOMAIN val |-> IF val[k] = ";" THEN "\n" ELSE val[k]],
                            << >>) IN
    IF i <= Len(parts) THEN Concat(parts[i]) ELSE ""

\* The assignments one matched line makes to the result.
AssignLine(result, key, val) ==
    CASE key = "FN" -> [result EXCEPT !.full_name = Concat(val)]
      [] key = "N" -> [result EXCEPT !.last_name = PartOf(val, 1),
                                     !.first_name = PartOf(val, 2)]
      [] key = "EMAIL" -> [result EXCEPT !.email = Concat(val)]
      [] key = "TEL" -> [result EXCEPT !.phone = Concat(val)]
      [] key = "ORG" -> [result EXCEPT !.org = Concat(val)]
      [] key = "TITLE" -> [result EXCEPT !.title = Concat(val)]
      [] key = "NOTE" -> [result EXCEPT !.note = Concat(val)]
      [] key = "UID" -> [result EXCEPT !.uid = Concat(val)]
      [] OTHER -> result

RECURSIVE ParseLines(_, _)
\* for (const line of lines) { ... }
ParseLines(lines, result) ==
    IF lines = << >> THEN result
    ELSE LET m == MatchLine(Head(lines)) IN
         ParseLines(Tail(lines),
                    IF m.match THEN AssignLine(result, toUpperCase(m.key), m.val)
                    ELSE result)

\* parseVCard on the text itself; a field no line assigns is Undefined.
parseVCardText(text) ==
    ParseLines(SplitLines(RemoveCrlfSpace(text), << >>),
               [f \in ContactFields \cup {"uid"} |-> Undefined])

\* A logical line: its key ("" for a line without a colon), the start of
\* its value, the rest of its value and whether the rest is on a
\* continuation line.
LogicalLines ==
    [key : {"FN", "EMAIL", "X-ABC", ""}, head : {<<"a">>},
     rest : {<< >>, <<"b">>, <<"EMAIL", ":", "c">>}, folded : BOOLEAN]

VCardLines == UNION {[1..n -> LogicalLines] : n \in 1..MaxVCardLines}

\* The text of one logical line, each physical line ended by eol.
LineText(l, eol) ==
    (IF l.key = "" THEN << >> ELSE <<l.key, ":">>) \o l.head
      \o (IF l.folded THEN <<eol, " ">> ELSE << >>) \o l.rest \o <<eol>>

RECURSIVE VCardText(_, _)
VCardText(lines, eol) ==
    IF lines = << >> THEN << >>
    ELSE LineText(Head(lines), eol) \o VCardText(Tail(lines), eol)

\* The same logical lines, none of them folded.
Unfolded(lines) == [i \in DOMAIN lines |-> [lines[i] EXCEPT !.folded = FALSE]]

\* The logical lines with a recognized key.
Recognized(lines) == SelectSeq(lines, LAMBDA l : l.key \in {"FN", "EMAIL"})

DecodeVCard(lines, eol) ==
    /\ codec = NoCodec
    /\ codec' = [op |-> "vcard", lines |-> lines, eol |-> eol,
                 record |-> parseVCardText(VCardText(lines, eol))]
    /\ UNCHANGED <<store, etagCtr, uidCtr, clock, calls, foreign, credsOk,
                   caldavClient, carddavClient, sessions, inv, collections,
                   calendarOwner>>

InitCodec == InitOver(Small)
\* One function is applied to one input drawn for it.
NextCodec ==
    \/ codec = NoCodec /\ \E name \in Names : DeriveSlug(name)
    \/ codec = NoCodec /\ \E r \in EventRecords : EncodeEvent(r)
    \/ DecodeEvent
    \/ codec = NoCodec /\ \E lines \in VCardLines, eol \in LineBreaks :
                             DecodeVCard(lines, eol)
SpecCodec == InitCodec /\ [][NextCodec]_vars

(***************************************************************************)
(* Properties.                                                             *)
(***************************************************************************)
Running == DOMAIN inv

\* The step in which the server answers the request invocation s waits for.
FetchAnswered(s) == inv[s].pc = "fetch" /\ inv'[s].pc # "fetch"
PutAnswered(s) == inv[s].pc = "put" /\ inv'[s] # inv[s]

\* The object at the URL of s is no longer the version s fetched.
StaleFetch(s) ==
    ~Exists(inv[s].url) \/ store[inv[s].url].etag # inv[s].etag

NotFoundErrors == {"Event not found", "Todo not found", "Contact not found"}
MalformedErrors == {"No VEVENT found in object", "No VTODO found in object"}

Expected(tool) ==
    CASE tool = "update_event" -> "VEVENT"
      [] tool = "update_todo" -> "VTODO"
      [] tool = "update_contact" -> "VCARD"

\* C1: an update whose object was rewritten between its fetch and its write
\* does not change the store; a write that is applied stores the text the
\* update built under a version no other update in flight holds, so of two
\* updates that fetched the same version at most one is applied.
LostUpdateSafety ==
    [][\A s \in Running :
         PutAnswered(s) /\ inv[s].tool \in UpdateTools =>
           IF StaleFetch(s) THEN store' = store
           ELSE /\ store'[inv[s].url].data = inv[s].req.data
                /\ \A t \in Running \ {s} :
                     inv[t].pc = "put" /\ inv[t].url = inv[s].url
                       => store'[inv[s].url].etag # inv[t].etag]_vars

\* C1 witness: two updates of one object, no other writer: one was applied,
\* the other met a conflict, and the object is there.
ConflictBetweenUpdates ==
    /\ foreign = 0
    /\ inv["a"].pc = "done" /\ inv["b"].pc = "done"
    /\ inv["a"].tool \in UpdateTools /\ inv["b"].tool \in UpdateTools
    /\ inv["a"].url = inv["b"].url
    /\ inv["a"].result.kind = "returned" /\ inv["b"].result.kind = "returned"
    /\ inv["a"].result.status = 204 /\ inv["b"].result.status = 412
    /\ Exists(inv["a"].url)

\* C2 (as claimed): an update whose conditional write the server refused
\* with 412 ends rejected; it does not return a result.
ConflictIsRejected ==
    \A s \in Running :
        (/\ inv[s].pc = "done"
         /\ inv[s].tool \in UpdateTools
         /\ inv[s].writes > 0
         /\ inv[s].result.kind = "returned") => inv[s].result.status # 412

\* The fields of each update that C3 names: <<request field, record field>>.
MergedFields(tool) ==
    CASE tool = "update_event" ->
           {<<"summary", "summary">>, <<"start", "dtstart">>, <<"end", "dtend">>,
            <<"description", "description">>, <<"location", "location">>}
      [] tool = "update_todo" ->
           {<<"summary", "summary">>, <<"description", "description">>,
            <<"due", "due">>, <<"priority", "priority">>, <<"status", "status">>}
      [] tool = "update_contact" -> {<<f, f>> : f \in ContactFields}

\* The name of a record field in the decoded record.
DecodedName(f) ==
    CASE f = "dtstart" -> "start" [] f = "dtend" -> "end" [] OTHER -> f

\* Whether a request leaves field f out, v being what it holds for f.
Omitted(f, v) ==
    CASE f \in {"start", "end", "due"} -> v = UndefinedDate
      [] f = "priority" -> v = NoNumber
      [] OTHER -> v = Undefined

\* The record a reader decodes from a text, as the update decodes it.
Decoded(tool, data) ==
    IF tool = "update_contact" THEN parseVCard(data)
    ELSE parseIcalObjects(data, Expected(tool))[1]

MergedAsRequested(s) ==
    \A p \in MergedFields(inv[s].tool) :
        inv[s].merged[p[2]] =
            IF Omitted(p[1], inv[s].args[p[1]])
            THEN inv[s].existing[DecodedName(p[2])]
            ELSE inv[s].args[p[1]]

\* A name of a contact that the fetched text does not have, or an FN it has
\* empty: buildVCard writes FN, never empty, and N whether the record has
\* them or not.
NameAdded(s, f) ==
    /\ inv[s].tool = "update_contact"
    /\ f \in {"full_name", "first_name", "last_name"}
    /\ \/ inv[s].existing[f] = Undefined
       \/ f = "full_name" /\ inv[s].existing.full_name = ""

OmittedUnchangedIn(s, fields) ==
    \A p \in fields :
        Omitted(p[1], inv[s].args[p[1]]) =>
            Decoded(inv[s].tool, inv[s].req.data)[DecodedName(p[2])]
                = inv[s].existing[DecodedName(p[2])]

OmittedUnchanged(s) == OmittedUnchangedIn(s, MergedFields(inv[s].tool))

\* An update_event that asks for the DATE form.
AsksAllDay(s) == inv[s].tool = "update_event" /\ inv[s].args.all_day = "true"

AllDayPreserved ==
    \A s \in Running :
        (/\ inv[s].pc = "put" /\ inv[s].tool = "update_event"
         /\ inv[s].args.all_day = Undefined
         /\ ~StaleFetch(s)
         /\ store[inv[s].url].data.DTSTART.k = "DATE")
        => /\ inv[s].req.data.DTSTART.k = "DATE"
           /\ inv[s].req.data.DTEND.k \in {"DATE", "no line"}

\* C5: the UID of every stored object, and of every text on its way to the
\* server, is the uid the object was created with (the uid its URL names).
UidNeverChanges ==
    /\ \A u \in Urls : Exists(u) => store[u].data.UID = u
    /\ \A s \in Running :
          inv[s].pc \in {"put", "create"} => inv[s].req.data.UID = inv[s].req.url

\* C5 witness: an object that an update has rewritten.
ObjectUpdated ==
    \E s \in Running :
        /\ inv[s].pc = "done" /\ inv[s].tool \in UpdateTools
        /\ inv[s].result.kind = "returned" /\ inv[s].result.status = 204
        /\ Exists(inv[s].url) /\ store[inv[s].url].data.UID = inv[s].url

\* C6: the todo an update writes carries COMPLETED, set to the instant of
\* the update, exactly when its resulting status is COMPLETED; the status it
\* writes is the request's when the request has one; the request has no
\* completed field.
CompletedFollowsStatus ==
    [][\A s \in Running :
         FetchAnswered(s) /\ inv'[s].pc = "put" /\ inv[s].tool = "update_todo" =>
            /\ "completed" \notin DOMAIN inv'[s].args
            /\ inv'[s].req.data.STATUS = "COMPLETED"
                 => inv'[s].req.data.COMPLETED = clock' /\ clock' > clock
            /\ inv'[s].req.data.STATUS # "COMPLETED"
                 => inv'[s].req.data.COMPLETED = NoNumber
            /\ inv'[s].args.status # Undefined
                 => inv'[s].req.data.STATUS = inv'[s].args.status]_vars

\* C6 witness: a todo completed earlier is completed again: the COMPLETED on
\* its way to the server is the new instant, not the stored one.
CompletedAgain ==
    \E s \in Running :
        /\ inv[s].pc = "put" /\ inv[s].tool = "update_todo"
        /\ inv[s].existing.completed # NoNumber
        /\ inv[s].args.status = "COMPLETED"
        /\ inv[s].req.data.COMPLETED > inv[s].existing.completed

\* C7 (as claimed): an update has a write in flight only if the object it
\* fetched holds a component of the kind the tool expects.
WrongKindRejected ==
    \A s \in Running :
        (/\ inv[s].pc = "put" /\ inv[s].tool \in UpdateTools
         /\ ~StaleFetch(s))
        => store[inv[s].url].data.comp = Expected(inv[s].tool)

\* C8: a get or an update whose fetch returns no object ends rejected with
\* its not-found error, has issued no write, and leaves the store as it is.
NotFoundRejected ==
    [][\A s \in Running :
         FetchAnswered(s) /\ credsOk /\ Multiget(inv[s].url) = << >> =>
           /\ inv'[s].pc = "done"
           /\ inv'[s].result.kind = "rejected"
           /\ inv'[s].result.error \in NotFoundErrors
           /\ inv'[s].writes = 0
           /\ store' = store]_vars

\* C8 witness: an update ended with its not-found error and no write.
UpdateNotFound ==
    \E s \in Running :
        /\ inv[s].pc = "done" /\ inv[s].tool \in UpdateTools
        /\ inv[s].result.kind = "rejected"
        /\ inv[s].result.error \in NotFoundErrors
        /\ inv[s].writes = 0

UpdateCountsAndOrder(s) ==
    /\ inv[s].fetches <= 1
    /\ inv[s].writes <= 1
    /\ inv[s].writes = 1 => inv[s].fetches = 1
    /\ inv[s].pc = "put" => inv[s].etag # NoEtag /\ inv[s].req.method = "PUT"
    /\ inv[s].pc = "fetch" => inv[s].writes = 0
    /\ inv[s].pc = "done" => inv[s].req = None

\* C9 (amended): an update issues at most one fetch and at most one write,
\* the write only after its fetch returned an object, and nothing once it
\* has ended; it has issued exactly one fetch when it ends, unless its
\* login failed, in which case it has issued none.
UpdateStateMachine ==
    \A s \in Running :
        inv[s].tool \in UpdateTools =>
            /\ UpdateCountsAndOrder(s)
            /\ inv[s].pc = "done" =>
                 IF inv[s].result = [kind |-> "rejected", error |-> "login failed"]
                 THEN inv[s].fetches = 0 /\ inv[s].writes = 0
                 ELSE inv[s].fetches = 1

\* C9 witness: an update that met a conflict has ended after one fetch and
\* one write, with no request in flight.
ConflictEndsUpdate ==
    \E s \in Running :
        /\ inv[s].pc = "done" /\ inv[s].tool \in UpdateTools
        /\ inv[s].result.kind = "returned" /\ inv[s].result.status = 412
        /\ inv[s].fetches = 1 /\ inv[s].writes = 1 /\ inv[s].req = None

\* C9 (as claimed): every update that has ended has issued exactly one fetch.
ExactlyOneFetch ==
    \A s \in Running :
        inv[s].tool \in UpdateTools =>
            /\ UpdateCountsAndOrder(s)
            /\ inv[s].pc = "done" => inv[s].fetches = 1

SessionsOf(proto) == {i \in 1..Len(sessions) : sessions[i].proto = proto}

\* C10: for each protocol at most one client is ever made (and logged in),
\* every invocation holds the client its protocol's handle names, and a
\* handle that is set is never cleared or replaced.
OneSessionPerProtocol ==
    /\ [](\A proto \in {"caldav", "carddav"} :
            /\ Cardinality(SessionsOf(proto)) <= 1
            /\ Handle(proto) # 0 => SessionsOf(proto) = {Handle(proto)})
    /\ [](\A s \in Running :
            inv[s].pc # "idle" => inv[s].client = Handle(Proto(inv[s].tool)))
    /\ [][/\ caldavClient # 0 => caldavClient' = caldavClient
          /\ carddavClient # 0 => carddavClient' = carddavClient]_vars

\* C10 witness: two first uses of one protocol overlap: the login of the
\* first is in flight while the second has its request out on the same client.
OverlappingFirstUses ==
    /\ inv["a"].pc = "login" /\ inv["b"].pc \in {"fetch", "create", "delete"}
    /\ Proto(inv["a"].tool) = Proto(inv["b"].tool)
    /\ inv["a"].client = inv["b"].client
    /\ sessions[inv["a"].client].login = "pending"

\* The requests an invocation has in flight through its DAV session.
RequestPcs == {"fetch", "put", "create", "delete", "mkcalendar", "discover"}

\* C11: an invocation that has a fetch, create, update or delete in flight
\* sent it through a session whose login had completed successfully.
RequestsAfterLogin ==
    \A s \in Running :
        inv[s].pc \in RequestPcs => sessions[inv[s].client].login = "ok"

\* C12: an invocation that returned a success result had its request
\* answered with a success (2xx) status.
NoSuccessOnFailure ==
    \A s \in Running :
        /\ inv[s].pc = "done"
        /\ inv[s].result.kind = "returned"
        /\ inv[s].result.success = "true"
        => inv[s].result.status \in 200..299

(***************************************************************************)
(* The derivation of a path segment, said from the name: its words (the    *)
(* maximal runs of letters and digits, lowercased) joined by hyphens.      *)
(***************************************************************************)
RECURSIVE Words(_, _)
\* The words of str, after the word `word` that is being read.
Words(str, word) ==
    IF str = << >> THEN (IF word = << >> THEN << >> ELSE <<word>>)
    ELSE IF LowerChar(Head(str)) \in AlphaNumeric
         THEN Words(Tail(str), Append(word, LowerChar(Head(str))))
    ELSE (IF word = << >> THEN << >> ELSE <<word>>) \o Words(Tail(str), << >>)

RECURSIVE Joined(_)
Joined(words) ==
    IF words = << >> THEN << >>
    ELSE IF Len(words) = 1 THEN words[1]
    ELSE words[1] \o <<"-">> \o Joined(Tail(words))

Segment(name) == Joined(Words(name, << >>))

TeamSync == <<"T", "e", "a", "m", " ", "S", "y", "n", "c">>

\* C14: the path segment of a new calendar and of a new address book is the
\* name lowercased, every maximal run of characters outside a-z0-9 replaced
\* by one hyphen, hyphens at the ends removed; "Team Sync" gives team-sync.
SlugDerivation ==
    /\ codec.op = "slug" =>
         /\ codec.calendar = Segment(codec.name)
         /\ codec.book = codec.calendar
    /\ CalendarSlug(TeamSync) = <<"t", "e", "a", "m", "-", "s", "y", "n", "c">>
    /\ AddressBookSlug(TeamSync) = CalendarSlug(TeamSync)

\* A name whose run of other characters is at its end, after a capital.
SlugOfTrailingRun ==
    /\ codec.op = "slug"
    /\ codec.name = <<"A", " ", "-">>
    /\ codec.calendar = <<"a">>

(***************************************************************************)
(* The event codec.                                                        *)
(***************************************************************************)
\* The record has the text field: it is there and not empty.
HasText(v) == v \notin {Undefined, Null, ""}
HasDate(v) == v.k \notin {"undefined", "null"}

\* The iCalendar token of an ISO string, in the form asked for.
TokenOf(iso, form) ==
    IF form = "DATE" THEN IcalDate(iso.day) ELSE IcalDateTime(iso.day, iso.hour)

\* The form the allDay flag asks for.
FormOf(allDay) == IF allDay = "true" THEN "DATE" ELSE "DATE-TIME"

\* The ISO string of an instant as Date.toISOString prints it.
IsoNormalized(iso) == IsoMillis(iso.day, iso.hour)

Encoded == codec.op \in {"encoded", "decoded"}

\* C16: the encoding of an event record has UID and DTSTART; it has DTEND,
\* SUMMARY, DESCRIPTION and LOCATION exactly when the record has them; the
\* form of DTSTART and DTEND follows the allDay flag alone, so a date-only
\* start with allDay unset is a DATE-TIME; start 2026-03-01T09:00:00Z without
\* end and allDay false gives DTSTART:20260301T090000Z and no DTEND.
EventEncoding ==
    /\ Encoded =>
         LET r == codec.rec
             t == codec.text IN
         /\ t.comp = "VEVENT" /\ t.UID = r.uid
         /\ t.DTSTART = TokenOf(r.dtstart, FormOf(r.allDay))
         /\ t.DTEND = IF HasDate(r.dtend) THEN TokenOf(r.dtend, FormOf(r.allDay))
                      ELSE NoDateLine
         /\ t.SUMMARY = IF HasText(r.summary) THEN r.summary ELSE NoLine
         /\ t.DESCRIPTION = IF HasText(r.description) THEN r.description ELSE NoLine
         /\ t.LOCATION = IF HasText(r.location) THEN r.location ELSE NoLine
    /\ LET t == buildVEvent([uid |-> 1, summary |-> "A", dtstart |-> IsoInstant(1, 9),
                             dtend |-> UndefinedDate, description |-> Undefined,
                             location |-> Undefined, allDay |-> "false"], 1) IN
       t.DTSTART = IcalDateTime(1, 9) /\ t.DTEND = NoDateLine

\* A date-only start encoded with allDay unset.
DateOnlyStartEncoded ==
    /\ codec.op = "encoded"
    /\ codec.rec.dtstart = IsoDateOnly(1) /\ codec.rec.allDay = Undefined
    /\ codec.text.DTSTART = IcalDateTime(1, 0)

\* C17: decoding the encoding of an event record that is not all-day gives
\* a first record with the record's uid, summary, description and location
\* and its start and end ISO-normalized; a field the record lacks decodes to
\* the empty string or null.
EventRoundTrip ==
    codec.op = "decoded" /\ codec.rec.allDay # "true" =>
        /\ Len(codec.decoded) >= 1
        /\ LET r == codec.rec
               d == codec.decoded[1] IN
           /\ d.uid = r.uid
           /\ d.summary = IF HasText(r.summary) THEN r.summary ELSE ""
           /\ d.description = IF HasText(r.description) THEN r.description ELSE ""
           /\ d.location = IF HasText(r.location) THEN r.location ELSE ""
           /\ d.start = IsoNormalized(r.dtstart)
           /\ d.end = IF HasDate(r.dtend) THEN IsoNormalized(r.dtend) ELSE NullDate

\* C18: the encoding of an all-day event record has DTSTART and DTEND in the
\* DATE form, and decoding it gives date-only ISO values for start and end.
AllDayRoundTrip ==
    codec.op = "decoded" /\ codec.rec.allDay = "true" =>
        /\ codec.text.DTSTART = IcalDate(codec.rec.dtstart.day)
        /\ HasDate(codec.rec.dtend) => codec.text.DTEND = IcalDate(codec.rec.dtend.day)
        /\ Len(codec.decoded) >= 1
        /\ codec.decoded[1].start = IsoDateOnly(codec.rec.dtstart.day)
        /\ HasDate(codec.rec.dtend) =>
             codec.decoded[1].end = IsoDateOnly(codec.rec.dtend.day)

(***************************************************************************)
(* The collection tools.                                                   *)
(***************************************************************************)
MakeAnswered(s) == inv[s].pc \in {"mkcalendar", "mkcol"} /\ inv'[s].pc = "done"
DeleteCollectionAnswered(s) == inv[s].pc = "delcol" /\ inv'[s].pc = "done"

\* C13: creating a calendar or an address book whose derived segment is
\* that of an existing collection is a rejected operation and leaves the
\* collections as they are, whatever name the segment was derived from.
CollisionRejected ==
    [][\A s \in Running :
         MakeAnswered(s) /\ CollectionAt(inv[s].req.url) # {} =>
            /\ collections' = collections
            /\ inv'[s].result.kind = "rejected"]_vars

\* C15: delete_calendar and delete_address_book return success exactly for
\* a 2xx response; for any other response they are rejected with an error
\* that carries the response's status code and body.
DeleteCollectionChecked ==
    [][\A s \in Running :
         DeleteCollectionAnswered(s) =>
            LET status == DeleteStatus(inv[s].req.url)
                result == inv'[s].result IN
            IF status \in 200..299
            THEN result.kind = "returned" /\ result.success = "true"
            ELSE /\ result.kind = "rejected"
                 /\ result.status = status
                 /\ result.body = ResponseBody(status)
                 /\ collections' = collections]_vars

\* A delete of a collection that is not there has been rejected with the 404.
DeleteCollectionRejected ==
    \E s \in Running :
        /\ inv[s].pc = "done" /\ inv[s].tool = "delete_address_book"
        /\ inv[s].result.kind = "rejected"
        /\ inv[s].result.status = 404 /\ inv[s].result.body = "Not Found"

(***************************************************************************)
(* Contacts: the formatted name.                                           *)
(***************************************************************************)
\* The record a contact tool hands to buildVCard.
ContactRecord(s) ==
    IF inv[s].tool = "create_contact" THEN inv[s].args ELSE inv[s].merged

\* The FN of a record: the full name, else the names joined, else Unknown.
FormattedName(r) ==
    IF HasText(r.full_name) THEN r.full_name
    ELSE IF HasText(r.first_name) /\ HasText(r.last_name)
         THEN r.first_name \o " " \o r.last_name
    ELSE IF HasText(r.first_name) THEN r.first_name
    ELSE IF HasText(r.last_name) THEN r.last_name
    ELSE "Unknown"

WritesVCard(s) ==
    /\ inv[s].tool \in {"create_contact", "update_contact"}
    /\ inv[s].pc \in {"create", "put"}

\* C19: every vCard that create_contact or update_contact writes, and so
\* every stored one, has a non-empty FN: the record's full name when that is
\* not empty, else its first and last names joined, else Unknown.
FnNeverEmpty ==
    /\ \A s \in Running :
         WritesVCard(s) =>
            /\ inv[s].req.data.comp = "VCARD"
            /\ inv[s].req.data.FN = FormattedName(ContactRecord(s))
            /\ VCardField(inv[s].req.data, "FN") \notin {"", Undefined}
    /\ \A u \in Urls :
         Exists(u) /\ store[u].data.comp = "VCARD" =>
            VCardField(store[u].data, "FN") \notin {"", Undefined}

(***************************************************************************)
(* Listings.                                                               *)
(***************************************************************************)
Wanted(tool) == IF tool = "list_events" THEN "VEVENT" ELSE "VTODO"

StoredOfKind(comp) == {u \in Urls : Exists(u) /\ store[u].data.comp = comp}

ListedUrls(results) == {results[i].url : i \in DOMAIN results}

\* C20: decoding a stored text for a component kind gives its components of
\* that kind and the empty sequence when it has none; a listing the server
\* answers returns, never fails, lists only objects of its kind, and
\* list_events without a time range lists every stored event.
ListingByKind ==
    [][\A s \in Running :
         FetchAnswered(s) /\ inv[s].tool \in ListTools /\ credsOk =>
            LET result == inv'[s].result IN
            /\ \A u \in Urls, type \in {"VEVENT", "VTODO"} :
                 Exists(u) =>
                    Len(parseIcalObjects(store[u].data, type))
                      = IF store[u].data.comp = type THEN 1 ELSE 0
            /\ result.kind = "returned"
            /\ ListedUrls(result.results) \subseteq StoredOfKind(Wanted(inv[s].tool))
            /\ inv[s].tool = "list_events" /\ inv[s].req.timeRange = None
                 => ListedUrls(result.results) = StoredOfKind("VEVENT")]_vars

\* list_events has returned no entry for a calendar that holds a todo.
TodoNotListedAsEvent ==
    \E s \in Running :
        /\ inv[s].pc = "done" /\ inv[s].tool = "list_events"
        /\ inv[s].result.kind = "returned"
        /\ inv[s].result.results = << >>
        /\ StoredOfKind("VTODO") # {}

(***************************************************************************)
(* What an invocation carries.                                             *)
(***************************************************************************)
\* C21: an invocation starts with no etag, no existing record and no merged
\* record, and the etag and the existing record of an update's PUT are the
\* ones of the object as the fetch of that same invocation returned it.
NothingKeptBetweenInvocations ==
    [][\A s \in DOMAIN inv :
         /\ (inv[s].pc = "idle" /\ inv'[s].pc # "idle") =>
               /\ inv'[s].etag = NoEtag
               /\ inv'[s].existing = None
               /\ inv'[s].merged = None
         /\ (FetchAnswered(s) /\ inv'[s].pc = "put") =>
               /\ Exists(inv[s].url)
               /\ inv'[s].etag = store[inv[s].url].etag
               /\ inv'[s].req.ifMatch = store[inv[s].url].etag
               /\ inv'[s].existing = Decoded(inv[s].tool, store[inv[s].url].data)]_vars

\* An update is about to write an object that an earlier update of the
\* other slot has written: it holds the etag of that later version.
UpdateAfterUpdate ==
    \E s, t \in DOMAIN inv :
        /\ s # t
        /\ inv[t].pc = "done" /\ inv[t].tool \in UpdateTools
        /\ inv[t].result.kind = "returned" /\ inv[t].result.status = 204
        /\ inv[s].pc = "put" /\ inv[s].tool = inv[t].tool /\ inv[s].url = inv[t].url
        /\ inv[s].etag > 1
        /\ inv[s].etag = store[inv[s].url].etag

(***************************************************************************)
(* The todos the adapter writes.                                           *)
(***************************************************************************)
\* The todo texts in the store and in the writes in flight.
TodoTexts ==
    {store[u].data : u \in {v \in Urls : Exists(v) /\ store[v].data.comp = "VTODO"}}
      \cup {inv[s].req.data :
               s \in {r \in DOMAIN inv : inv[r].pc \in {"create", "put"}
                                          /\ inv[r].tool \in {"create_todo", "update_todo"}}}

\* C22: every todo written carries COMPLETED exactly when its STATUS is
\* COMPLETED, and the todo of a create has STATUS NEEDS-ACTION and no
\* COMPLETED.
CompletedIffStatusCompleted ==
    /\ \A d \in TodoTexts : (d.COMPLETED # NoNumber) <=> (d.STATUS = "COMPLETED")
    /\ \A s \in DOMAIN inv :
          inv[s].pc = "create" /\ inv[s].tool = "create_todo" =>
             /\ inv[s].req.data.STATUS = "NEEDS-ACTION"
             /\ inv[s].req.data.COMPLETED = NoNumber

\* An update takes a completed todo back to IN-PROCESS: the todo it writes
\* has no COMPLETED any more.
CompletedTakenBack ==
    \E s \in DOMAIN inv :
        /\ inv[s].pc = "put" /\ inv[s].tool = "update_todo"
        /\ inv[s].existing.status = "COMPLETED"
        /\ inv[s].existing.completed # NoNumber
        /\ inv[s].req.data.STATUS = "IN-PROCESS"
        /\ inv[s].req.data.COMPLETED = NoNumber

(***************************************************************************)
(* The path segment of a new collection.                                   *)
(***************************************************************************)
\* C23: the segment derived from a name of at least one character is not
\* empty and holds only a-z, 0-9 and hyphens, for calendars and for address
\* books.
SegmentNamesCollection ==
    codec.op = "slug" =>
       /\ Len(codec.name) >= 1
       /\ codec.calendar # << >>
       /\ codec.book # << >>
       /\ \A i \in DOMAIN codec.calendar : codec.calendar[i] \in AlphaNumeric \cup {"-"}
       /\ \A i \in DOMAIN codec.book : codec.book[i] \in AlphaNumeric \cup {"-"}

(***************************************************************************)
(* The owner of the collections.                                           *)
(***************************************************************************)
\* C24: a listing that returns holds every collection of its kind that a
\* create has made, whatever the owner override.
CreatedIsDiscovered ==
    [][\A s \in DOMAIN inv :
         (/\ inv[s].pc = "discover" /\ inv'[s].pc = "done"
          /\ inv'[s].result.kind = "returned") =>
            {c \in collections : c.kind = inv[s].req.kind} \subseteq inv'[s].result.results]_vars

(***************************************************************************)
(* Folded lines of a vCard.                                                *)
(***************************************************************************)
\* C25: a vCard text decodes to the record its unfolded text decodes to,
\* whether its lines end with CRLF or with LF, and the lines with another
\* key or without a colon change no field.
FoldedDecodesAsUnfolded ==
    codec.op = "vcard" =>
       /\ codec.record = parseVCardText(VCardText(Unfolded(codec.lines), codec.eol))
       /\ codec.record = parseVCardText(VCardText(Recognized(Unfolded(codec.lines)),
                                                   codec.eol))

(***************************************************************************)
(* What an update leaves of the stored text.                               *)
(***************************************************************************)
\* The lines the builder of a component writes.
Supported(comp) ==
    CASE comp = "VEVENT" -> {"comp", "UID", "DTSTAMP", "DTSTART", "DTEND", "SUMMARY",
                             "DESCRIPTION", "LOCATION"}
      [] comp = "VTODO" -> {"comp", "UID", "DTSTAMP", "SUMMARY", "DESCRIPTION", "DUE",
                            "PRIORITY", "STATUS", "COMPLETED"}
      [] comp = "VCARD" -> {"comp", "UID", "FN", "N", "EMAIL", "TEL", "ORG", "TITLE",
                            "NOTE"}

\* C26: the text an update's PUT stores holds the lines of its builder and
\* no other, whatever further lines the stored text held before.
UpdateDropsOtherLines ==
    [][\A s \in DOMAIN inv :
         (/\ PutAnswered(s) /\ inv[s].tool \in UpdateTools
          /\ inv'[s].result.status \in {201, 204}) =>
            /\ store'[inv[s].url].data = inv[s].req.data
            /\ DOMAIN store'[inv[s].url].data = Supported(inv[s].req.data.comp)
            /\ "OTHER" \notin DOMAIN store'[inv[s].url].data]_vars

\* An update has been applied to an object that another writer had given
\* a line the builders do not write: the stored text has lost it.
OtherLinesDropped ==
    \E s \in DOMAIN inv :
        /\ inv[s].pc = "done" /\ inv[s].tool \in UpdateTools
        /\ inv[s].result.kind = "returned" /\ inv[s].result.status = 204
        /\ foreign >= 1
        /\ uidCtr = 1
        /\ Exists(inv[s].url)
        /\ "OTHER" \notin DOMAIN store[inv[s].url].data

(***************************************************************************)
(* Deletes.                                                                *)
(***************************************************************************)
\* C27: the DELETE of an event, a todo or a contact names no version; it is
\* never answered with a conflict, and where the server accepts the
\* credentials and the object exists it removes the object, whatever
\* version is stored.
DeleteNamesNoVersion ==
    [][\A s \in DOMAIN inv :
         (inv[s].pc = "delete" /\ inv'[s] # inv[s]) =>
            /\ inv[s].tool \in DeleteTools
            /\ inv[s].req.ifMatch = NoEtag
            /\ inv'[s].result.kind = "returned"
            /\ inv'[s].result.status # 412
            /\ (credsOk /\ Exists(inv[s].url)) =>
                  /\ inv'[s].result.status = 204
                  /\ store'[inv[s].url] = NoObject]_vars

\* A delete has removed an object that another writer had rewritten since
\* it was created.
DeletedAfterRewrite ==
    \E s \in DOMAIN inv :
        /\ inv[s].pc = "done" /\ inv[s].tool \in DeleteTools
        /\ inv[s].result.kind = "returned" /\ inv[s].result.status = 204
        /\ foreign >= 1
        /\ etagCtr >= 2
        /\ uidCtr = 1
        /\ ~Exists(inv[s].url)

(***************************************************************************)
(* The time range of list_events.                                          *)
(***************************************************************************)
\* start or end is a string that holds something.
Given(v) == v.k \notin {"undefined", "empty"}

\* C28 as stated: the fetch of list_events carries a time range exactly
\* when both start and end are supplied.
TimeRangeIffBothSupplied ==
    \A s \in DOMAIN inv :
        inv[s].tool = "list_events" /\ inv[s].pc = "fetch" =>
           ((inv[s].req.timeRange # None)
              <=> (inv[s].args.start # UndefinedDate /\ inv[s].args.end # UndefinedDate))

\* C28: the fetch of list_events carries a time range exactly when both
\* start and end are supplied and not empty, the range being the two
\* instants as toISOString prints them; with one of them missing or empty
\* the fetch carries none and a fetch the server answers lists every event.
TimeRangeIffBothGiven ==
    [][\A s \in DOMAIN inv :
         /\ (inv'[s].tool = "list_events" /\ inv'[s].pc = "fetch") =>
               LET a == inv'[s].args IN
               /\ (inv'[s].req.timeRange # None) <=> (Given(a.start) /\ Given(a.end))
               /\ Given(a.start) /\ Given(a.end) =>
                     inv'[s].req.timeRange = [start |-> IsoMillis(a.start.day, a.start.hour),
                                              end |-> IsoMillis(a.end.day, a.end.hour)]
         /\ (/\ FetchAnswered(s) /\ inv[s].tool = "list_events" /\ credsOk
             /\ ~(Given(inv[s].args.start) /\ Given(inv[s].args.end))) =>
               /\ inv'[s].result.kind = "returned"
               /\ ListedUrls(inv'[s].result.results) = StoredOfKind("VEVENT")]_vars

\* list_events was given a start and no end: its fetch is out without a
\* time range while the calendar holds an event that starts and ends
\* before that start.
OnlyStartGiven ==
    \E s \in DOMAIN inv :
        /\ inv[s].tool = "list_events" /\ inv[s].pc = "fetch"
        /\ Given(inv[s].args.start) /\ inv[s].args.end = UndefinedDate
        /\ inv[s].req.timeRange = None
        /\ \E u \in Urls :
              /\ Exists(u) /\ store[u].data.comp = "VEVENT"
              /\ store[u].data.DTEND = NoDateLine
              /\ Instant(store[u].data.DTSTART) < Instant(inv[s].args.start)

(***************************************************************************)
(* A login that fails.                                                     *)
(***************************************************************************)
\* C29: an invocation that waits for the login of the session it made has
\* issued no request; when that login fails the invocation ends rejected
\* with no request issued, no further session is made and the server's
\* objects are as they were.
LoginFailureRejects ==
    [][\A s \in DOMAIN inv :
         (inv[s].pc = "login" /\ inv'[s] # inv[s]) =>
            /\ inv[s].fetches = 0 /\ inv[s].writes = 0
            /\ ~credsOk =>
                  /\ inv'[s].pc = "done"
                  /\ inv'[s].result.kind = "rejected"
                  /\ inv'[s].fetches = 0 /\ inv'[s].writes = 0
                  /\ Len(sessions') = Len(sessions)
                  /\ sessions'[inv[s].client].login = "failed"
                  /\ store' = store]_vars

\* The first use of a protocol has ended rejected by its failed login.
FirstUseLoginFailed ==
    \E s \in DOMAIN inv :
        /\ inv[s].pc = "done"
        /\ inv[s].result.kind = "rejected"
        /\ inv[s].result.error = "login failed"
        /\ sessions[inv[s].client].login = "failed"
        /\ inv[s].fetches = 0 /\ inv[s].writes = 0


====
